---- MODULE Spec2Model ----
(***************************************************************************)
(* FlowBuilder (src/index.tsx): the run-mode traversal of a flow graph.    *)
(*                                                                         *)
(* The Viewer component keeps three pieces of React state: history,        *)
(* currentNodeId and selections.  Its handlers handleContinue (advance),   *)
(* handleBack (back) and toggleSelection read the nodes and edges handed   *)
(* down by App and never change them.  Each handler is one action here;    *)
(* the handlers are invoked directly, in any state, as operations of the   *)
(* traversal engine: the rendering that hides the Back button or disables  *)
(* the Continue button is not part of an action's guard.                   *)
(*                                                                         *)
(* JavaScript values: arrays are sequences, a string is a TLA+ string,     *)
(* the values undefined and null are the two strings Undefined and Null.   *)
(***************************************************************************)
EXTENDS Integers, Sequences, FiniteSets, TLC

VARIABLES
  nodes,          \* App state `nodes`: node id -> node data (ids are unique)
  edges,          \* App state `edges`: sequence of [source, target, sourceHandle]
  history,        \* Viewer state `history`: sequence of node ids, top is last
  currentNodeId,  \* Viewer state `currentNodeId`
  selections,     \* Viewer state `selections`: sequence of option ids
  outcome,        \* the exit of the handler that ran last
  matched,        \* id of matchedPath in the last handleContinue, or Undefined
  mode,           \* App state `mode`: "editor" or "viewer"
  pending,        \* documents of imports that were started and not yet settled
  selectedElements, \* App state `selectedElements`: node ids and edge indices
  runs            \* number of Viewer instances mounted so far

vars == <<nodes, edges, history, currentNodeId, selections, outcome, matched,
          mode, pending, selectedElements, runs>>

appVars == <<mode, pending, selectedElements, runs>>

view == <<currentNodeId, selections, history>>

(***************************************************************************)
(* Bounds of the model.                                                    *)
(***************************************************************************)
MaxHistory == 3
MaxPaths == 2
MaxHubEdges == 2
MaxPending == 1
MaxSelected == 1
MaxRuns == 2

(***************************************************************************)
(* JavaScript values.                                                      *)
(***************************************************************************)
Undefined == "undefined"
Null == "null"

Range(s) == {s[i] : i \in 1..Len(s)}

\* Array.prototype.filter(x => x # v)
Without(s, v) == SelectSeq(s, LAMBDA x : x # v)

(***************************************************************************)
(* String.prototype.localeCompare on the labels of the model.  The host's  *)
(* collation compares the letters first, whatever their case (a before b   *)
(* before c), and looks at the case only between strings with the same     *)
(* letters; it is not the order of the UTF-16 code units, where every      *)
(* upper-case letter precedes every lower-case one.  The labels of the     *)
(* model are single letters, no two of which differ only in case, so the   *)
(* host-dependent order of the cases is never consulted.                   *)
(***************************************************************************)
Labels == {"a", "B"}

CollationKey == [a |-> 1, B |-> 2]

LocaleCompare(x, y) ==
  IF CollationKey[x] < CollationKey[y] THEN -1
  ELSE IF CollationKey[x] > CollationKey[y] THEN 1
  ELSE 0

(***************************************************************************)
(* The graph handed to the Viewer.                                         *)
(***************************************************************************)
NodeTypes == {"static", "radio", "checkbox", "end"}

\* const currentNode = nodes.find(n => n.id === currentNodeId)
HasCurrentNode == currentNodeId \in DOMAIN nodes

CurrentNode == nodes[currentNodeId]

\* edges.find(...): of the indices of the edges that satisfy the test the
\* first, 0 for undefined
FindEdge(hits) ==
  IF hits = {} THEN 0 ELSE CHOOSE i \in hits : \A j \in hits : i <= j

(***************************************************************************)
(* handleContinue, checkbox branch: the comparator of sortedPaths.         *)
(***************************************************************************)
\* mutant: a.requiredOptionIds.length - b.requiredOptionIds.length
LenDiffAscending(a, b) ==
  Len(a.requiredOptionIds) - Len(b.requiredOptionIds)

LenDiff(a, b) == Len(b.requiredOptionIds) - Len(a.requiredOptionIds)

\* mutant: the labels compared with < (code units) instead of localeCompare
LabelOrderByCodeUnit(a, b) ==
  LET units == [a |-> 97, B |-> 66]
  IN  IF units[a.label] < units[b.label] THEN -1
      ELSE IF units[a.label] > units[b.label] THEN 1
      ELSE 0

LabelOrder(a, b) == LocaleCompare(a.label, b.label)

ComparePaths(a, b) ==
  IF LenDiff(a, b) # 0 THEN LenDiff(a, b) ELSE LabelOrder(a, b)

(***************************************************************************)
(* [...paths].sort(comparator).  Array.prototype.sort is stable: paths the *)
(* comparator ranks as equal (it returns 0) keep their declared order, so  *)
(* path i lands behind every path that compares before it and every        *)
(* earlier-declared path that compares equal to it.                        *)
(***************************************************************************)
SortedPaths(paths) ==
  LET n == Len(paths)
      Before(j, i) ==
        \/ ComparePaths(paths[j], paths[i]) < 0
        \/ ComparePaths(paths[j], paths[i]) = 0 /\ j < i
      rank(i) == Cardinality({j \in 1..n : Before(j, i)}) + 1
  IN  [k \in 1..n |-> paths[CHOOSE i \in 1..n : rank(i) = k]]

\* mutant: exact match, the selections must be the required ids
PathMatchesExact(path, sel) ==
  Range(path.requiredOptionIds) = Range(sel)

\* path.requiredOptionIds.every(req => selections.includes(req))
PathMatches(path, sel) ==
  \A i \in 1..Len(path.requiredOptionIds) :
    path.requiredOptionIds[i] \in Range(sel)

\* sortedPaths.find(path => ...): the id of matchedPath, Undefined when none
MatchedPathId(paths, sel) ==
  LET sorted == SortedPaths(paths)
      hits == {k \in 1..Len(sorted) : PathMatches(sorted[k], sel)}
  IN  IF hits = {} THEN Undefined
      ELSE sorted[CHOOSE k \in hits : \A j \in hits : k <= j].id

(***************************************************************************)
(* handleContinue: nextEdge, per node type.                                *)
(***************************************************************************)
\* mutant: only an edge without a source handle is taken
StaticEdgeWithoutHandle ==
  FindEdge({i \in 1..Len(edges) :
              /\ edges[i].source = currentNodeId
              /\ edges[i].sourceHandle = Undefined})

\* static: "Just take the first edge"
StaticEdge ==
  FindEdge({i \in 1..Len(edges) : edges[i].source = currentNodeId})

\* radio: selections[0] is undefined when selections is empty
SelectedOptionId == IF Len(selections) > 0 THEN selections[1] ELSE Undefined

\* mutant: the first edge of the node, whatever handle it leaves from
RadioEdgeAnyHandle ==
  FindEdge({i \in 1..Len(edges) : edges[i].source = currentNodeId})

RadioEdge ==
  FindEdge({i \in 1..Len(edges) :
              /\ edges[i].source = currentNodeId
              /\ edges[i].sourceHandle = SelectedOptionId})

\* mutant: falls back to the first edge of the node, whatever its handle
PathEdgeAnyHandle(pathId) ==
  FindEdge({i \in 1..Len(edges) : edges[i].source = currentNodeId})

\* checkbox: the edge that leaves from the handle of matchedPath
PathEdge(pathId) ==
  FindEdge({i \in 1..Len(edges) :
              /\ edges[i].source = currentNodeId
              /\ edges[i].sourceHandle = pathId})

CheckboxEdge ==
  LET m == MatchedPathId(CurrentNode.paths, selections)
  IN  IF m # Undefined THEN PathEdge(m) ELSE 0

NextEdge ==
  IF CurrentNode.type = "static" THEN StaticEdge
  ELSE IF CurrentNode.type = "radio" THEN RadioEdge
  ELSE IF CurrentNode.type = "checkbox" THEN CheckboxEdge
  ELSE 0

(***************************************************************************)
(* handleContinue: its exits.                                              *)
(***************************************************************************)
\* if (!currentNode) return
NoCurrentNode == outcome' = "no_node" /\ UNCHANGED view

\* mutant: the history is not reset
RestartKeepHistory ==
  /\ UNCHANGED history
  /\ currentNodeId' = "start"
  /\ selections' = <<>>
  /\ outcome' = "restart"

\* end node with canRestart
Restart ==
  /\ history' = <<>>
  /\ currentNodeId' = "start"
  /\ selections' = <<>>
  /\ outcome' = "restart"

\* end node without canRestart: return
DeadEnd == outcome' = "dead_end" /\ UNCHANGED view

\* mutant: pushes the target instead of the step that is left
CommitMovePushTarget(e) ==
  /\ Len(history) < MaxHistory
  /\ history' = Append(history, e.target)
  /\ currentNodeId' = e.target
  /\ selections' = <<>>
  /\ outcome' = "commit"

\* the target node exists: the three setters
CommitMove(e) ==
  /\ Len(history) < MaxHistory
  /\ history' = Append(history, currentNodeId)
  /\ currentNodeId' = e.target
  /\ selections' = <<>>
  /\ outcome' = "commit"

\* mutant: history and selections are set before the target is looked up
AlertMissingAfterPush ==
  /\ outcome' = "alert_missing"
  /\ history' = Append(history, currentNodeId)
  /\ selections' = <<>>
  /\ UNCHANGED currentNodeId

\* alert("Configuration Error: The next node is missing.")
AlertMissing == outcome' = "alert_missing" /\ UNCHANGED view

\* alert("No valid path defined for this selection.")
AlertNoPath == outcome' = "alert_nopath" /\ UNCHANGED view

\* mutant: the move is committed without looking the target node up
FollowEdgeUnchecked(i) ==
  IF i # 0 THEN CommitMove(edges[i]) ELSE AlertNoPath

FollowEdge(i) ==
  IF i # 0
  THEN IF edges[i].target \in DOMAIN nodes
       THEN CommitMove(edges[i])
       ELSE AlertMissing
  ELSE AlertNoPath

HandleContinue ==
  /\ UNCHANGED <<nodes, edges>>
  /\ IF ~HasCurrentNode
     THEN matched' = Undefined /\ NoCurrentNode
     ELSE IF CurrentNode.type = "end"
     THEN /\ matched' = Undefined
          /\ IF CurrentNode.canRestart THEN Restart ELSE DeadEnd
     ELSE /\ matched' = IF CurrentNode.type = "checkbox"
                        THEN MatchedPathId(CurrentNode.paths, selections)
                        ELSE Undefined
          /\ FollowEdge(NextEdge)

(***************************************************************************)
(* handleBack.  prevId is tested for truthiness: the empty string is       *)
(* falsy, so an empty id is popped but not made current.                   *)
(***************************************************************************)
Truthy(str) == str # ""

\* mutant: the history is popped, the position is never restored
HandleBackPopOnly ==
  /\ UNCHANGED <<nodes, edges>>
  /\ matched' = Undefined
  /\ IF Len(history) = 0
     THEN outcome' = "back_noop" /\ UNCHANGED view
     ELSE /\ history' = SubSeq(history, 1, Len(history) - 1)
          /\ UNCHANGED <<currentNodeId, selections>>
          /\ outcome' = "back_popped"

HandleBack ==
  /\ UNCHANGED <<nodes, edges>>
  /\ matched' = Undefined
  /\ IF Len(history) = 0
     THEN outcome' = "back_noop" /\ UNCHANGED view
     ELSE LET prevId == history[Len(history)]
          IN  /\ history' = SubSeq(history, 1, Len(history) - 1)
              /\ IF Truthy(prevId)
                 THEN /\ currentNodeId' = prevId
                      /\ selections' = <<>>
                      /\ outcome' = "back_moved"
                 ELSE /\ UNCHANGED <<currentNodeId, selections>>
                      /\ outcome' = "back_popped"

(***************************************************************************)
(* toggleSelection(optId, isRadio).                                        *)
(***************************************************************************)
OptionIds == {"o1", "o2"}

\* mutant: a selected option is not removed
ToggleSelectionAddOnly(optId, isRadio) ==
  /\ UNCHANGED <<nodes, edges, history, currentNodeId>>
  /\ matched' = Undefined
  /\ outcome' = "toggle"
  /\ selections' = IF isRadio THEN <<optId>> ELSE Append(selections, optId)

ToggleSelection(optId, isRadio) ==
  /\ UNCHANGED <<nodes, edges, history, currentNodeId>>
  /\ matched' = Undefined
  /\ outcome' = "toggle"
  /\ selections' = IF isRadio THEN <<optId>>
                   ELSE IF optId \in Range(selections)
                        THEN Without(selections, optId)
                        ELSE Append(selections, optId)

(***************************************************************************)
(* The Viewer's action buttons.  Continue is rendered on every node that   *)
(* is not an end node and is disabled on a radio or checkbox node without  *)
(* selections; Restart is rendered on an end node with canRestart.         *)
(***************************************************************************)
\* mutant: the Continue button is never disabled
CanAdvanceUngated ==
  IF CurrentNode.type # "end" THEN TRUE ELSE CurrentNode.canRestart

CanAdvance ==
  IF CurrentNode.type # "end"
  THEN ~(CurrentNode.type # "static" /\ Len(selections) = 0)
  ELSE CurrentNode.canRestart

\* the exits of handleContinue that show an alert
ReportedOutcomes == {"alert_missing", "alert_nopath"}

(***************************************************************************)
(* The graphs of the model.  loadFlowData accepts any document that holds  *)
(* a nodes array and an edges array, so every graph below is one the App   *)
(* can hand to the Viewer.  Node ids are opaque strings; the empty string  *)
(* is one of them.  The id "ghost" is never the id of a node.              *)
(***************************************************************************)
StaticNode ==
  [type |-> "static", options |-> <<>>, paths |-> <<>>, canRestart |-> FALSE]

RadioNode ==
  [type |-> "radio", options |-> <<"o1", "o2">>, paths |-> <<>>,
   canRestart |-> FALSE]

CheckboxNode(paths) ==
  [type |-> "checkbox", options |-> <<"o1", "o2">>, paths |-> paths,
   canRestart |-> FALSE]

EndNode(canRestart) ==
  [type |-> "end", options |-> <<>>, paths |-> <<>>,
   canRestart |-> canRestart]

Edge(source, target, sourceHandle) ==
  [source |-> source, target |-> target, sourceHandle |-> sourceHandle]

SeqsUpTo(S, n) == UNION {[1..k -> S] : k \in 0..n}

\* A checkbox node's paths: ids by position, every label and required list.
PathIds == <<"p1", "p2", "p3", "p4">>

RequiredLists == {<<>>, <<"o1">>, <<"o2">>, <<"o1", "o2">>}

PathLists ==
  UNION {{[i \in 1..k |-> [id |-> PathIds[i], label |-> f[i].label,
                           requiredOptionIds |-> f[i].req]] :
            f \in [1..k -> [label : Labels, req : RequiredLists]]} :
         k \in 1..MaxPaths}

\* The start node is a checkbox node; path i is wired to its own node or to
\* nothing.
PathTargets == <<"t1", "t2", "t3", "t4">>

PathGraphs ==
  {[nodes |-> ("start" :> CheckboxNode(pl))
              @@ [t \in {PathTargets[i] : i \in 1..Len(pl)} |-> StaticNode],
    edges |-> SelectSeq([i \in 1..Len(pl) |->
                           Edge("start", PathTargets[i], PathIds[i])],
                        LAMBDA e : e.sourceHandle \in wired)] :
     pl \in PathLists, wired \in SUBSET {"p1", "p2", "p3", "p4"}}

\* The start node is a hub of one kind with up to MaxHubEdges outgoing edges;
\* the node with the empty id leads back to start or on to an end node.
ElsePaths ==
  << [id |-> "p1", label |-> "a", requiredOptionIds |-> <<"o1">>],
     [id |-> "p2", label |-> "B", requiredOptionIds |-> <<>>] >>

HubEdges(handles) ==
  SeqsUpTo({Edge("start", t, h) : t \in {"", "ghost"}, h \in handles},
           MaxHubEdges)

Hubs ==
  {[node |-> StaticNode, edges |-> es] : es \in HubEdges({Null})}
  \cup {[node |-> RadioNode, edges |-> es] :
          es \in HubEdges({"o1", "o2", Undefined})}
  \cup {[node |-> CheckboxNode(ElsePaths), edges |-> es] :
          es \in HubEdges({"p1", "p2"})}

Tails ==
  {[edges |-> <<Edge("", "start", Null)>>, end |-> EndNode(FALSE)]}
  \cup {[edges |-> <<Edge("", "e", Null)>>, end |-> EndNode(r)] :
          r \in BOOLEAN}

HubGraphs ==
  {[nodes |-> ("start" :> hub.node) @@ ("" :> StaticNode) @@ ("e" :> tail.end),
    edges |-> hub.edges \o tail.edges] :
     hub \in Hubs, tail \in Tails}

\* A document without a node "start".
NoStartGraph ==
  [nodes |-> ("" :> StaticNode), edges |-> <<Edge("", "", Null)>>]

Graphs == HubGraphs \cup PathGraphs \cup {NoStartGraph}

(***************************************************************************)
(* The Viewer mounts with its useState initialisers.                       *)
(***************************************************************************)
Init ==
  /\ \E g \in Graphs : nodes = g.nodes /\ edges = g.edges
  /\ history = <<>>
  /\ currentNodeId = "start"
  /\ selections = <<>>
  /\ outcome = "mount"
  /\ matched = Undefined
  /\ mode = "viewer"
  /\ pending = {}
  /\ selectedElements = [nodes |-> {}, edges |-> {}]
  /\ runs = 1

Next ==
  \/ HandleContinue /\ UNCHANGED appVars
  \/ HandleBack /\ UNCHANGED appVars
  \/ \E optId \in OptionIds, isRadio \in BOOLEAN :
       ToggleSelection(optId, isRadio) /\ UNCHANGED appVars

Spec == Init /\ [][Next]_vars

(***************************************************************************)
(* The App component around the Viewer.  App owns nodes, edges, mode and   *)
(* selectedElements; the Viewer is rendered while mode is "viewer" and is  *)
(* unmounted, its state discarded, when mode goes back to "editor".  The   *)
(* Viewer's variables keep their last values while no Viewer is mounted:   *)
(* a new mount overwrites them with the useState initialisers.             *)
(***************************************************************************)
viewerVars == <<history, currentNodeId, selections, outcome, matched>>

NoSelection == [nodes |-> {}, edges |-> {}]

\* INITIAL_NODES and the initial, empty edges
InitialGraph == [nodes |-> ("start" :> StaticNode), edges |-> <<>>]

\* The documents a file, a URL or the catalog can deliver.
RadioDoc ==
  [nodes |-> ("start" :> RadioNode) @@ ("n1" :> StaticNode)
               @@ ("e" :> EndNode(TRUE)),
   edges |-> <<Edge("start", "n1", "o1"), Edge("start", "e", "o2"),
               Edge("n1", "e", Null)>>]

AppDocs == {RadioDoc, NoStartGraph}

\* The Viewer covers the window (fixed inset-0 z-50) once it is past its
\* 'Node not found' return; until then the editor below stays in reach.
ViewerOverlay == mode = "viewer" /\ HasCurrentNode

EditorVisible == ~ViewerOverlay

\* handleLoad, executeUrlImport, loadCatalogFile: the read or fetch starts
StartImport(doc) ==
  /\ EditorVisible
  /\ doc \notin pending
  /\ Cardinality(pending) < MaxPending
  /\ pending' = pending \cup {doc}
  /\ UNCHANGED <<nodes, edges, mode, selectedElements, runs>>
  /\ UNCHANGED viewerVars

\* loadFlowData: setNodes(data.nodes); setEdges(data.edges)
LoadFlowData(doc) ==
  /\ nodes' = doc.nodes
  /\ edges' = doc.edges

\* reader.onload, or the continuation of `await fetch`: the document is
\* loaded whatever the mode is by then; the new nodes are not selected
CompleteImport(doc) ==
  /\ doc \in pending
  /\ pending' = pending \ {doc}
  /\ LoadFlowData(doc)
  /\ selectedElements' = NoSelection
  /\ UNCHANGED <<mode, runs>>
  /\ UNCHANGED viewerVars

\* the fetch or the parse fails: an alert, nothing is loaded
ImportFails(doc) ==
  /\ doc \in pending
  /\ pending' = pending \ {doc}
  /\ UNCHANGED <<nodes, edges, mode, selectedElements, runs>>
  /\ UNCHANGED viewerVars

Selections ==
  {sel \in [nodes : SUBSET DOMAIN nodes, edges : SUBSET (1..Len(edges))] :
     Cardinality(sel.nodes) + Cardinality(sel.edges) <= MaxSelected}

\* useOnSelectionChange: the user selects on the canvas
Select(sel) ==
  /\ EditorVisible
  /\ sel \in Selections
  /\ sel # selectedElements
  /\ selectedElements' = sel
  /\ UNCHANGED <<nodes, edges, mode, pending, runs>>
  /\ UNCHANGED viewerVars

\* the window's keydown listener, Delete or Backspace: deleteElements removes
\* the selected nodes, the edges connected to them and the selected edges
DeleteKey ==
  /\ selectedElements # NoSelection
  /\ nodes' = [n \in DOMAIN nodes \ selectedElements.nodes |-> nodes[n]]
  /\ LET kept == {i \in 1..Len(edges) :
                    /\ i \notin selectedElements.edges
                    /\ edges[i].source \notin selectedElements.nodes
                    /\ edges[i].target \notin selectedElements.nodes}
         Nth(k) == CHOOSE i \in kept :
                     Cardinality({j \in kept : j < i}) = k - 1
     IN  edges' = [k \in 1..Cardinality(kept) |-> edges[Nth(k)]]
  /\ selectedElements' = NoSelection
  /\ UNCHANGED <<mode, pending, runs>>
  /\ UNCHANGED viewerVars

\* mutant: the Viewer's state outlives the unmount
RunFlowKeepState ==
  /\ mode = "editor"
  /\ runs < MaxRuns
  /\ mode' = "viewer"
  /\ runs' = runs + 1
  /\ outcome' = "mount"
  /\ UNCHANGED <<history, currentNodeId, selections, matched>>
  /\ UNCHANGED <<nodes, edges, pending, selectedElements>>

\* the Run Flow button: setMode('viewer'), a Viewer is mounted
RunFlow ==
  /\ mode = "editor"
  /\ runs < MaxRuns
  /\ mode' = "viewer"
  /\ runs' = runs + 1
  /\ history' = <<>>
  /\ currentNodeId' = "start"
  /\ selections' = <<>>
  /\ outcome' = "mount"
  /\ matched' = Undefined
  /\ UNCHANGED <<nodes, edges, pending, selectedElements>>

\* the Viewer's Exit button: onExit = setMode('editor')
Exit ==
  /\ ViewerOverlay
  /\ mode' = "editor"
  /\ UNCHANGED <<nodes, edges, pending, selectedElements, runs>>
  /\ UNCHANGED viewerVars

\* the Continue and Restart buttons
ClickContinue ==
  /\ ViewerOverlay
  /\ CanAdvance
  /\ HandleContinue
  /\ UNCHANGED appVars

\* the Back button, rendered while history.length > 0
ClickBack ==
  /\ ViewerOverlay
  /\ Len(history) > 0
  /\ HandleBack
  /\ UNCHANGED appVars

\* mutant: every option toggles as on a checkbox node
ClickOptionNeverExclusive(optId) ==
  /\ ViewerOverlay
  /\ CurrentNode.type \in {"radio", "checkbox"}
  /\ optId \in Range(CurrentNode.options)
  /\ ToggleSelection(optId, FALSE)
  /\ UNCHANGED appVars

\* an option of the current radio or checkbox node
ClickOption(optId) ==
  /\ ViewerOverlay
  /\ CurrentNode.type \in {"radio", "checkbox"}
  /\ optId \in Range(CurrentNode.options)
  /\ ToggleSelection(optId, CurrentNode.type = "radio")
  /\ UNCHANGED appVars

(***************************************************************************)
(* One run: a Viewer mounted on a graph that does not change, driven       *)
(* through the controls it renders.                                        *)
(***************************************************************************)
NextRun ==
  \/ ClickContinue
  \/ ClickBack
  \/ \E optId \in OptionIds : ClickOption(optId)

SpecRun == Init /\ [][NextRun]_vars

(***************************************************************************)
(* The PropertiesPanel of the editor, open on a checkbox node.  Options    *)
(* are kept by their ids (updateOption changes a label only, which is not  *)
(* part of an option here).  Date.now() gives addOption and addPath an id  *)
(* that was not used before: here, an id that the node does not hold.      *)
(***************************************************************************)
PanelNodeId == "n1"

PanelNode == nodes[PanelNodeId]

\* App.updateNode: { ...n.data, ...newData } on the node with this id
UpdateNode(id, newData) ==
  nodes' = [nodes EXCEPT
              ![id] = [f \in DOMAIN nodes[id] |->
                         IF f \in DOMAIN newData THEN newData[f]
                         ELSE nodes[id][f]]]

PanelUnchanged ==
  /\ UNCHANGED <<edges, mode, pending, selectedElements, runs>>
  /\ UNCHANGED viewerVars

\* the ids the node holds, as options or in a path's requiredOptionIds
HeldOptionIds ==
  Range(PanelNode.options)
  \cup UNION {Range(PanelNode.paths[i].requiredOptionIds) :
                i \in 1..Len(PanelNode.paths)}

addOption(optId) ==
  /\ optId \notin HeldOptionIds
  /\ UpdateNode(PanelNodeId, [options |-> Append(PanelNode.options, optId)])
  /\ PanelUnchanged

removeOption(optId) ==
  /\ optId \in Range(PanelNode.options)
  /\ UpdateNode(PanelNodeId, [options |-> Without(PanelNode.options, optId)])
  /\ PanelUnchanged

addPath(pathId) ==
  /\ Len(PanelNode.paths) < MaxPaths
  /\ \A i \in 1..Len(PanelNode.paths) : PanelNode.paths[i].id # pathId
  /\ UpdateNode(PanelNodeId,
                [paths |-> Append(PanelNode.paths,
                                  [id |-> pathId, label |-> "New Path",
                                   requiredOptionIds |-> <<>>])])
  /\ PanelUnchanged

\* updates has the fields of a path that change
updatePath(pathId, updates) ==
  /\ \E i \in 1..Len(PanelNode.paths) : PanelNode.paths[i].id = pathId
  /\ UpdateNode(PanelNodeId,
       [paths |-> [i \in 1..Len(PanelNode.paths) |->
                     IF PanelNode.paths[i].id = pathId
                     THEN [f \in DOMAIN PanelNode.paths[i] |->
                             IF f \in DOMAIN updates THEN updates[f]
                             ELSE PanelNode.paths[i][f]]
                     ELSE PanelNode.paths[i]]])
  /\ PanelUnchanged

removePath(pathId) ==
  /\ \E i \in 1..Len(PanelNode.paths) : PanelNode.paths[i].id = pathId
  /\ UpdateNode(PanelNodeId,
       [paths |-> SelectSeq(PanelNode.paths, LAMBDA q : q.id # pathId)])
  /\ PanelUnchanged

\* the label input of a path
EditPathLabel(pathId, label) ==
  updatePath(pathId, [label |-> label])

\* the 'Requires (AND)' checkbox of option optId in path number i: one is
\* rendered for each of the node's options
ToggleRequired(i, optId) ==
  /\ i \in 1..Len(PanelNode.paths)
  /\ optId \in Range(PanelNode.options)
  /\ LET path == PanelNode.paths[i]
         checked == optId \notin Range(path.requiredOptionIds)
         newReqs == IF checked
                    THEN Append(path.requiredOptionIds, optId)
                    ELSE Without(path.requiredOptionIds, optId)
     IN  updatePath(path.id, [requiredOptionIds |-> newReqs])

\* a checkbox node as onDrop creates it, selected in the editor
InitPanel ==
  /\ nodes = ("start" :> StaticNode)
               @@ (PanelNodeId :> [type |-> "checkbox", options |-> <<>>,
                                   paths |-> <<>>, canRestart |-> FALSE])
  /\ edges = <<>>
  /\ mode = "editor"
  /\ pending = {}
  /\ selectedElements = [nodes |-> {PanelNodeId}, edges |-> {}]
  /\ runs = 0
  /\ history = <<>>
  /\ currentNodeId = "start"
  /\ selections = <<>>
  /\ outcome = "unmounted"
  /\ matched = Undefined

NextPanel ==
  \/ \E optId \in OptionIds : addOption(optId)
  \/ \E optId \in OptionIds : removeOption(optId)
  \/ \E k \in 1..Len(PathIds) : addPath(PathIds[k])
  \/ \E k \in 1..Len(PathIds) : removePath(PathIds[k])
  \/ \E k \in 1..Len(PathIds), label \in Labels :
       EditPathLabel(PathIds[k], label)
  \/ \E i \in 1..MaxPaths, optId \in OptionIds : ToggleRequired(i, optId)

SpecPanel == InitPanel /\ [][NextPanel]_vars

InitApp ==
  /\ nodes = InitialGraph.nodes
  /\ edges = InitialGraph.edges
  /\ mode = "editor"
  /\ pending = {}
  /\ selectedElements = NoSelection
  /\ runs = 0
  /\ history = <<>>
  /\ currentNodeId = "start"
  /\ selections = <<>>
  /\ outcome = "unmounted"
  /\ matched = Undefined

NextApp ==
  \/ \E doc \in AppDocs : StartImport(doc)
  \/ \E doc \in AppDocs : CompleteImport(doc)
  \/ \E doc \in AppDocs : ImportFails(doc)
  \/ \E sel \in Selections : Select(sel)
  \/ DeleteKey
  \/ RunFlow
  \/ Exit
  \/ ClickContinue
  \/ ClickBack
  \/ \E optId \in OptionIds : ClickOption(optId)

SpecApp == InitApp /\ [][NextApp]_vars

(***************************************************************************)
(* The exits of handleContinue, as the claims name them.                   *)
(***************************************************************************)
\* handleContinue ran on a node that is not an end node
AdvanceOutcomes == {"commit", "alert_missing", "alert_nopath"}

\* handleContinue returned without a move
FailedOutcomes == {"alert_nopath", "alert_missing", "dead_end", "no_node"}

BackOutcomes == {"back_noop", "back_moved", "back_popped"}

OnCheckbox == HasCurrentNode /\ CurrentNode.type = "checkbox"

\* the paths of the current checkbox node whose required ids are all selected
Eligible ==
  {p \in Range(CurrentNode.paths) :
     Range(p.requiredOptionIds) \subseteq Range(selections)}

\* the eligible paths with the most required ids
MostSpecific ==
  {p \in Eligible :
     \A q \in Eligible : Cardinality(Range(q.requiredOptionIds))
                           <= Cardinality(Range(p.requiredOptionIds))}

PathOf(node, pathId) == CHOOSE p \in Range(node.paths) : p.id = pathId

\* C1: every advance that does not succeed (no connection or path matches,
\* the matched path is wired to nothing, the target step is absent, the
\* step is a non-restartable end node, or there is no current node) leaves
\* currentNodeId, selections and history as they were.
C1_FailedAdvanceKeepsState ==
  [][outcome' \in FailedOutcomes =>
       /\ currentNodeId' = currentNodeId
       /\ selections' = selections
       /\ history' = history]_vars

\* An advance failed on a missing target with selections made and a history.
C1_Witness ==
  /\ outcome = "alert_missing"
  /\ selections # <<>>
  /\ history # <<>>

\* C2: every successful advance from a step that is not an end node pushes
\* exactly the previous currentNodeId on history, makes the target of a
\* connection that leaves the previous step current, and empties selections.
C2_CommitPushesAndClears ==
  [][outcome' = "commit" =>
       /\ CurrentNode.type # "end"
       /\ history' = Append(history, currentNodeId)
       /\ \E i \in 1..Len(edges) :
            edges[i].source = currentNodeId /\ edges[i].target = currentNodeId'
       /\ selections' = <<>>]_vars

\* The second advance around a cycle: history holds two steps.
C2_Witness ==
  /\ outcome = "commit"
  /\ history = <<"start", "">>
  /\ currentNodeId = "start"

\* C3: on a checkbox step the path advance chooses is eligible and no
\* eligible path has more required ids; so a path whose required set is a
\* strict subset of another eligible path's is not chosen, and a path with no
\* required ids is chosen only when no eligible path has any.
C3_MostSpecificWins ==
  [][(OnCheckbox /\ matched' # Undefined) =>
       /\ PathOf(CurrentNode, matched') \in MostSpecific
       /\ \A q \in Eligible :
            ~(/\ Range(PathOf(CurrentNode, matched').requiredOptionIds)
                   \subseteq Range(q.requiredOptionIds)
              /\ Range(PathOf(CurrentNode, matched').requiredOptionIds)
                   # Range(q.requiredOptionIds))]_vars

\* The path declared second, requiring o1 and o2, was chosen over the path
\* declared first, requiring o1 alone, and its connection followed.
C3_Witness ==
  /\ outcome = "commit"
  /\ matched = "p2"
  /\ history = <<"start">>
  /\ nodes["start"].type = "checkbox"
  /\ Len(nodes["start"].paths) = 2
  /\ nodes["start"].paths[1].requiredOptionIds = <<"o1">>
  /\ nodes["start"].paths[2].requiredOptionIds = <<"o1", "o2">>

\* C4: on a checkbox step a path is eligible exactly when all its required
\* ids are selected (more may be selected); advance resolves to an eligible
\* path whenever there is one, and otherwise matches no path and reports
\* that no path is defined.
C4_SubsetMatch ==
  [][(OnCheckbox /\ outcome' \in AdvanceOutcomes) =>
       /\ Eligible # {} =>
            /\ matched' # Undefined
            /\ PathOf(CurrentNode, matched') \in Eligible
       /\ Eligible = {} =>
            /\ matched' = Undefined
            /\ outcome' = "alert_nopath"]_vars

\* The only path requires o1, o1 and o2 are selected, and the path matched
\* (it is wired to nothing, so the selections are still there to see).
C4_Witness ==
  /\ outcome = "alert_nopath"
  /\ matched = "p1"
  /\ nodes["start"].type = "checkbox"
  /\ currentNodeId = "start"
  /\ Len(nodes["start"].paths) = 1
  /\ nodes["start"].paths[1].requiredOptionIds = <<"o1">>
  /\ Range(selections) = {"o1", "o2"}

\* the UTF-16 code units of the labels: the order of the strings under <
CodeUnit == [a |-> 97, B |-> 66]

\* C5 (as stated): among the most specific eligible paths the chosen one has
\* the label that is smallest in lexicographic order (the order of the code
\* units of the strings).
C5_LexicographicTieBreak ==
  [][(OnCheckbox /\ matched' # Undefined) =>
       \A q \in MostSpecific :
         CodeUnit[PathOf(CurrentNode, matched').label] <= CodeUnit[q.label]]_vars

\* C5 (amended): among the most specific eligible paths the chosen one has a
\* label that localeCompare ranks after no other of their labels (letters
\* first, whatever their case).
C5_CollationTieBreak ==
  [][(OnCheckbox /\ matched' # Undefined) =>
       \A q \in MostSpecific :
         LocaleCompare(PathOf(CurrentNode, matched').label, q.label) <= 0]_vars

\* Two eligible paths with as many required ids, the one labelled "B"
\* declared first: the one labelled "a" was chosen and followed.
C5_Witness ==
  /\ outcome = "commit"
  /\ matched = "p2"
  /\ history = <<"start">>
  /\ nodes["start"].type = "checkbox"
  /\ Len(nodes["start"].paths) = 2
  /\ nodes["start"].paths[1].label = "B"
  /\ nodes["start"].paths[2].label = "a"
  /\ nodes["start"].paths[1].requiredOptionIds = <<>>
  /\ nodes["start"].paths[2].requiredOptionIds = <<>>

\* the sequences that hold the same paths as ps in another declared order
Reorderings(ps) ==
  {[k \in 1..Len(ps) |-> ps[f[k]]] :
     f \in {g \in [1..Len(ps) -> 1..Len(ps)] :
              \A i, j \in 1..Len(ps) : g[i] = g[j] => i = j}}

\* C6: the ranking of a checkbox step's paths puts one of any two distinct
\* paths strictly first, so the path advance matches for given paths and
\* selections is the same in whatever order the paths are declared.
C6_DeclaredOrderIrrelevant ==
  [][(OnCheckbox /\ outcome' \in AdvanceOutcomes) =>
       /\ \A i, j \in 1..Len(CurrentNode.paths) :
            i # j => ComparePaths(CurrentNode.paths[i], CurrentNode.paths[j]) # 0
       /\ \A ps \in Reorderings(CurrentNode.paths) :
            MatchedPathId(ps, selections) = matched']_vars

\* C7: on a checkbox step the connection followed leaves from the handle of
\* the one matched path; when no connection leaves from it advance reports
\* that no path is defined and changes nothing, whatever connections the
\* other eligible paths have.
C7_MatchedPathConnectionOnly ==
  [][(OnCheckbox /\ outcome' \in AdvanceOutcomes /\ matched' # Undefined) =>
       /\ outcome' = "commit" =>
            \E i \in 1..Len(edges) :
              /\ edges[i].source = currentNodeId
              /\ edges[i].sourceHandle = matched'
              /\ edges[i].target = currentNodeId'
       /\ (\A i \in 1..Len(edges) :
             ~(edges[i].source = currentNodeId
               /\ edges[i].sourceHandle = matched')) =>
            /\ outcome' = "alert_nopath"
            /\ currentNodeId' = currentNodeId
            /\ selections' = selections
            /\ history' = history]_vars

\* The matched path p2 (requires o1 and o2) is wired to nothing while the
\* eligible path p1 (requires o1) has a connection: no move was made.
C7_Witness ==
  /\ outcome = "alert_nopath"
  /\ matched = "p2"
  /\ currentNodeId = "start"
  /\ nodes["start"].type = "checkbox"
  /\ Len(nodes["start"].paths) = 2
  /\ nodes["start"].paths[1].requiredOptionIds = <<"o1">>
  /\ nodes["start"].paths[2].requiredOptionIds = <<"o1", "o2">>
  /\ Range(selections) = {"o1", "o2"}
  /\ \E i \in 1..Len(edges) :
       edges[i].source = "start" /\ edges[i].sourceHandle = "p1"

\* C8: advance checks for itself that a selection was made: invoked on a
\* radio or checkbox step with empty selections it never moves, whatever
\* connections and paths the step has.
C8_NoMoveWithoutSelection ==
  [][(/\ HasCurrentNode
      /\ CurrentNode.type \in {"radio", "checkbox"}
      /\ selections = <<>>
      /\ outcome' \in AdvanceOutcomes) =>
       /\ currentNodeId' = currentNodeId
       /\ history' = history]_vars

\* C9: back with an empty history changes nothing; with a non-empty history
\* it makes the top of history current, removes exactly that top and leaves
\* selections empty.
C9_BackPopsIntoCurrent ==
  [][outcome' \in BackOutcomes =>
       IF history = <<>>
       THEN /\ currentNodeId' = currentNodeId
            /\ selections' = selections
            /\ history' = history
       ELSE /\ currentNodeId' = history[Len(history)]
            /\ history' = SubSeq(history, 1, Len(history) - 1)
            /\ selections' = <<>>]_vars

\* C10: back right after a successful advance from a step that is not an end
\* node restores the position of before the advance.  In the state the
\* advance left (outcome = "commit") the step it left is the top of history
\* and the history it found is the rest, so back restores them when it makes
\* that top current and leaves that rest, with selections empty.
C10_BackUndoesAdvance ==
  [][(outcome = "commit" /\ outcome' \in BackOutcomes) =>
       /\ history # <<>>
       /\ currentNodeId' = history[Len(history)]
       /\ history' = SubSeq(history, 1, Len(history) - 1)
       /\ selections' = <<>>]_vars

\* C11: when the connection advance resolves leads to a step that is not in
\* the graph, advance reports the missing node (not the missing path) and
\* commits nothing; it reports a missing node in no other case.
C11_DanglingTargetNotCommitted ==
  [][(/\ HasCurrentNode
      /\ CurrentNode.type # "end"
      /\ outcome' \in AdvanceOutcomes) =>
       /\ (NextEdge # 0 /\ edges[NextEdge].target \notin DOMAIN nodes) =>
            /\ outcome' = "alert_missing"
            /\ currentNodeId' = currentNodeId
            /\ selections' = selections
            /\ history' = history
       /\ outcome' = "alert_missing" =>
            \E i \in 1..Len(edges) :
              /\ edges[i].source = currentNodeId
              /\ edges[i].target \notin DOMAIN nodes]_vars

\* On a checkbox step reached again around a cycle, the matched path's
\* connection led to a missing node.
C11_Witness ==
  /\ outcome = "alert_missing"
  /\ matched # Undefined
  /\ history # <<>>
  /\ currentNodeId = "start"

\* C12: on a radio step with exactly one selected option c, advance follows
\* a connection that leaves the step from handle c, and reports that no path
\* is defined when there is none; a connection from another handle is never
\* followed.
C12_RadioFollowsSelectedOutlet ==
  [][(/\ HasCurrentNode
      /\ CurrentNode.type = "radio"
      /\ Len(selections) = 1
      /\ outcome' \in AdvanceOutcomes) =>
       LET out == {i \in 1..Len(edges) :
                     /\ edges[i].source = currentNodeId
                     /\ edges[i].sourceHandle = selections[1]}
       IN  /\ out = {} =>
                /\ outcome' = "alert_nopath"
                /\ currentNodeId' = currentNodeId
                /\ history' = history
           /\ out # {} => outcome' # "alert_nopath"
           /\ outcome' = "commit" =>
                \E i \in out : edges[i].target = currentNodeId']_vars

\* o2 is selected, only o1 has a connection: no path is defined.
C12_Witness ==
  /\ outcome = "alert_nopath"
  /\ currentNodeId = "start"
  /\ nodes["start"].type = "radio"
  /\ selections = <<"o2">>
  /\ \E i \in 1..Len(edges) :
       edges[i].source = "start" /\ edges[i].sourceHandle = "o1"
  /\ \A i \in 1..Len(edges) :
       edges[i].source = "start" => edges[i].sourceHandle # "o2"

\* C13: on a static step advance follows the step's outgoing connection (the
\* first, when there are several); without an outgoing connection it reports
\* that no path is defined and changes nothing.
C13_StaticFollowsItsConnection ==
  [][(/\ HasCurrentNode
      /\ CurrentNode.type = "static"
      /\ outcome' \in AdvanceOutcomes) =>
       LET out == {i \in 1..Len(edges) : edges[i].source = currentNodeId}
       IN  /\ out = {} =>
                /\ outcome' = "alert_nopath"
                /\ currentNodeId' = currentNodeId
                /\ selections' = selections
                /\ history' = history
           /\ out # {} =>
                /\ outcome' # "alert_nopath"
                /\ outcome' = "commit" =>
                     \E i \in out : /\ \A j \in out : i <= j
                                    /\ edges[i].target = currentNodeId']_vars

\* A static step without outgoing connection, reached by an advance.
C13_Witness ==
  /\ outcome = "alert_nopath"
  /\ HasCurrentNode
  /\ CurrentNode.type = "static"
  /\ history # <<>>
  /\ \A i \in 1..Len(edges) : edges[i].source # currentNodeId

\* C14: advance on an end step with canRestart resets the traversal whatever
\* the history was: history and selections empty, the start step current.
C14_RestartResets ==
  [][(/\ HasCurrentNode
      /\ CurrentNode.type = "end"
      /\ CurrentNode.canRestart
      /\ outcome' \in {"restart", "dead_end"}) =>
       /\ outcome' = "restart"
       /\ history' = <<>>
       /\ selections' = <<>>
       /\ currentNodeId' = "start"]_vars

\* The traversal was restarted (the end step is two advances from start).
C14_Witness ==
  /\ outcome = "restart"
  /\ history = <<>>
  /\ selections = <<>>
  /\ currentNodeId = "start"

\* C15: on an end step without canRestart every advance fails, the failure
\* is reported, and nothing changes; back still pops a non-empty history.
C15_DeadEndReported ==
  [][(/\ HasCurrentNode
      /\ CurrentNode.type = "end"
      /\ ~CurrentNode.canRestart) =>
       /\ outcome' \in {"restart", "dead_end"} =>
            /\ outcome' \in ReportedOutcomes
            /\ currentNodeId' = currentNodeId
            /\ selections' = selections
            /\ history' = history
       /\ (outcome' \in BackOutcomes /\ history # <<>>) =>
            history' = SubSeq(history, 1, Len(history) - 1)]_vars

\* C16: canAdvance is true exactly on a static step, on an end step with
\* canRestart, and on a radio or checkbox step with selections.
C16_CanAdvance ==
  HasCurrentNode =>
    (CanAdvance <=>
       \/ CurrentNode.type = "static"
       \/ CurrentNode.type = "end" /\ CurrentNode.canRestart
       \/ /\ CurrentNode.type \in {"radio", "checkbox"}
          /\ selections # <<>>)

\* On a radio step the one selection was toggled off again: no advance.
C16_Witness ==
  /\ outcome = "toggle"
  /\ HasCurrentNode
  /\ CurrentNode.type = "radio"
  /\ selections = <<>>
  /\ ~CanAdvance

\* C17: toggleSelection(c, exclusive) leaves currentNodeId and history
\* alone; exclusive, it makes c the one selection; otherwise it adds c when
\* absent and removes it when present, the other selections staying.
C17_ToggleSelection ==
  [][\A c \in OptionIds, exclusive \in BOOLEAN :
       ToggleSelection(c, exclusive) =>
         /\ currentNodeId' = currentNodeId
         /\ history' = history
         /\ exclusive => selections' = <<c>>
         /\ (~exclusive /\ c \notin Range(selections)) =>
              /\ Range(selections') = Range(selections) \cup {c}
              /\ Len(selections') = Len(selections) + 1
         /\ (~exclusive /\ c \in Range(selections)) =>
              Range(selections') = Range(selections) \ {c}]_vars

\* Two options are selected after a non-exclusive toggle.
C17_Witness ==
  /\ outcome = "toggle"
  /\ Range(selections) = {"o1", "o2"}
  /\ history # <<>>

\* C18: each time run mode starts, also after a run that was exited part-way
\* through, the traversal state is fresh: currentNodeId is "start",
\* selections and history are empty.
C18_FreshStateOnRun ==
  [][(mode = "editor" /\ mode' = "viewer") =>
       /\ currentNodeId' = "start"
       /\ selections' = <<>>
       /\ history' = <<>>]_vars

\* A second Viewer has just been mounted, on an imported graph.
C18_Witness ==
  /\ mode = "viewer"
  /\ runs = 2
  /\ outcome = "mount"
  /\ currentNodeId = "start"
  /\ history = <<>>
  /\ selections = <<>>
  /\ nodes = RadioDoc.nodes

\* C19: a run started on a graph without the start node is no traversal
\* positioned at a node, and the user can leave run mode from it.
C19_CanLeaveRunMode ==
  (mode = "viewer" /\ ~HasCurrentNode) => ENABLED Exit

\* C20: while run mode lasts, nodes and edges do not change, and no import
\* is in flight when run mode starts.
C20_GraphFixedDuringRun ==
  [][/\ (mode = "viewer" /\ mode' = "viewer") => UNCHANGED <<nodes, edges>>
     /\ (mode = "editor" /\ mode' = "viewer") => pending = {}]_vars

\* the operations that change the position
MoveOutcomes == {"commit", "back_moved", "restart"}

\* C21: in a run driven through the Viewer's controls the selections are
\* option ids of the current step, none on a static or end step, at most
\* one on a radio step, and none right after an advance, a back or a restart
\* that changed the position.
C21_SelectionsOfCurrentStep ==
  /\ [](HasCurrentNode =>
          /\ Range(selections) \subseteq Range(CurrentNode.options)
          /\ CurrentNode.type \in {"static", "end"} => selections = <<>>
          /\ CurrentNode.type = "radio" => Len(selections) <= 1)
  /\ [][(outcome' \in MoveOutcomes \/ currentNodeId' # currentNodeId) =>
          selections' = <<>>]_vars

\* On the radio step, reached again around a cycle, o2 replaced o1.
C21_Witness ==
  /\ outcome = "toggle"
  /\ HasCurrentNode
  /\ CurrentNode.type = "radio"
  /\ selections = <<"o2">>
  /\ history # <<>>

\* C22: in a run over a graph that has the start node, history followed by
\* currentNodeId is a walk of the graph: all its ids are nodes, each one is
\* joined to the next by an edge, and no end node is in history.
C22_HistoryIsWalk ==
  "start" \in DOMAIN nodes =>
    LET walk == Append(history, currentNodeId)
    IN  /\ \A k \in 1..Len(walk) : walk[k] \in DOMAIN nodes
        /\ \A k \in 1..(Len(walk) - 1) :
             \E i \in 1..Len(edges) :
               /\ edges[i].source = walk[k]
               /\ edges[i].target = walk[k + 1]
        /\ \A k \in 1..Len(history) :
             /\ history[k] \in DOMAIN nodes
             /\ nodes[history[k]].type # "end"

\* C23: the bottom of a non-empty history is the start node, each back pops
\* exactly the top and keeps the rest, and the back that empties the history
\* ends in the initial state; so as many backs as history is long do.
C23_BacksReachInitialState ==
  /\ [](history # <<>> => history[1] = "start")
  /\ [][(outcome' \in BackOutcomes /\ history # <<>>) =>
          /\ history' = SubSeq(history, 1, Len(history) - 1)
          /\ Len(history) = 1 =>
               /\ currentNodeId' = "start"
               /\ selections' = <<>>]_vars

\* The last back of a run that had gone around a cycle.
C23_Witness ==
  /\ outcome = "back_moved"
  /\ history = <<>>
  /\ currentNodeId = "start"
  /\ selections = <<>>
  /\ \E i \in 1..Len(edges) : edges[i].target = "start"

\* C24: after any sequence of addOption, removeOption, addPath, removePath
\* and checking or unchecking required options on a checkbox step, every
\* path's requiredOptionIds holds only ids of the step's options.
C24_RequiredIdsAreOptions ==
  \A n \in DOMAIN nodes :
    \A i \in 1..Len(nodes[n].paths) :
      Range(nodes[n].paths[i].requiredOptionIds)
        \subseteq Range(nodes[n].options)

====
